---- MODULE Spec2Model ----
(***************************************************************************)
(* Model of the data layer of the CFE/CFT/LFR application (src/data.py):   *)
(* the cached fetch_data, the version counters of get_version, the club,   *)
(* match and player accessors, and normalize_status; and of get_matches    *)
(* of src/scraping.py.                                                     *)
(*                                                                         *)
(* Representation.  A Python str is a sequence of characters, each a       *)
(* one-character TLA+ string; in URLs, club ids and usernames a run of     *)
(* characters without "/" is written as one element, "/" itself being an   *)
(* element of its own.  A Python dict is a function; {} is the function    *)
(* with the empty domain.  A list or tuple is a sequence.                  *)
(***************************************************************************)
EXTENDS Integers, Sequences, FiniteSets, TLC

VARIABLES now, cache, refresh, joueurs, last

vars == <<now, cache, refresh, joueurs, last>>

(***************************************************************************)
(* Strings                                                                 *)
(***************************************************************************)
Letters ==
    {"a", "b", "c", "d", "e", "f", "g", "h", "i", "j", "k", "l", "m",
     "n", "o", "p", "q", "r", "s", "t", "u", "v", "w", "x", "y", "z"}

SeqToSet(s) == {s[i] : i \in 1..Len(s)}

Last(s) == s[Len(s)]

\* str.isalpha(): non-empty and every character a letter
isalpha(s) == Len(s) > 0 /\ \A i \in 1..Len(s) : s[i] \in Letters

\* str.startswith
startswith(s, p) == Len(p) <= Len(s) /\ SubSeq(s, 1, Len(p)) = p

\* the positions at which sep occurs in s
Occurrences(s, sep) ==
    {i \in 1..(Len(s) - Len(sep) + 1) : SubSeq(s, i, i + Len(sep) - 1) = sep}

\* `sub in s` for strings
contains(s, sub) == sub = <<>> \/ Occurrences(s, sub) # {}

Min(S) == CHOOSE m \in S : \A n \in S : m <= n

\* str.split(sep) for a non-empty separator string: cut at every
\* non-overlapping occurrence of the whole of sep, left to right
RECURSIVE split(_, _)
split(s, sep) ==
    IF Occurrences(s, sep) = {}
    THEN <<s>>
    ELSE LET k == Min(Occurrences(s, sep))
         IN <<SubSeq(s, 1, k - 1)>> \o split(SubSeq(s, k + Len(sep), Len(s)), sep)

(***************************************************************************)
(* Python values handed to normalize_status and get_player_matches as      *)
(* `status`: a str, or a list/tuple/set of str.                            *)
(***************************************************************************)
Str(s) == [t |-> "str", v |-> s]
Tup(q) == [t |-> "seq", v |-> q]

\* what `for x in status` iterates over: the characters of a str, the
\* items of a sequence
Items(status) ==
    IF status.t = "str"
    THEN [i \in 1..Len(status.v) |-> <<status.v[i]>>]
    ELSE status.v

finished == <<"f", "i", "n", "i", "s", "h", "e", "d">>
in_progress == <<"i", "n", "_", "p", "r", "o", "g", "r", "e", "s", "s">>
registered == <<"r", "e", "g", "i", "s", "t", "e", "r", "e", "d">>

STATUS == <<finished, in_progress, registered, <<>> >>

\* all(x in STATUS for x in q)
AllInSTATUS(q) == \A i \in 1..Len(q) : q[i] \in SeqToSet(STATUS)

Ret(v) == [kind |-> "return", v |-> v]
Raise(e) == [kind |-> "raise", v |-> e]

\* lines 221-231: a str becomes a sequence of tokens
tokens_of_str(s) ==
    IF ~isalpha(s)
    THEN LET separators == SelectSeq(s, LAMBDA c : c \notin Letters)
         IN IF separators = <<>>
            THEN Raise("ValueError")         \* str.split(''): empty separator
            ELSE Ret(SelectSeq(split(s, separators), LAMBDA p : p # <<>>))
    ELSE IF Len(s) < Len(STATUS)
         THEN Ret([i \in 1..Len(s) |-> <<s[i]>>])
         ELSE Ret(<<s>>)

\* lines 232-242: the name `standard` is bound nowhere in the module, so
\* the first evaluation of the filter condition raises NameError; `old`
\* is never empty here because some item is not in STATUS
expand_abbreviations(q) ==
    IF AllInSTATUS(q) THEN Ret(q) ELSE Raise("NameError")

normalize_status(status) ==
    LET toks == IF status.t = "str" THEN tokens_of_str(status.v) ELSE Ret(status.v)
    IN IF toks.kind = "raise" THEN toks ELSE expand_abbreviations(toks.v)

(***************************************************************************)
(* The cache of @st.cache_data(ttl=3600) around fetch_data, for one        *)
(* session.  An entry is keyed by the arguments (endpoint, version) and    *)
(* holds the returned value and the time it was stored.  An entry whose    *)
(* age has reached the TTL is kept as `stale`: its value and time are      *)
(* never read again.                                                       *)
(***************************************************************************)
TTL == 3600

TickStep == 1800
MaxTime == 3600
MaxVersion == 1

EmptyDict == <<>>

Key(endpoint, version) == [e |-> endpoint, v |-> version]
NoKey == [e |-> <<>>, v |-> 0 - 1]

StaleEntry == [val |-> EmptyDict, stamp |-> 0, stale |-> TRUE]

Expired(entry, t) == entry.stale \/ t - entry.stamp >= TTL

Live(c, key, t) == key \in DOMAIN c /\ ~Expired(c[key], t)

Put(c, key, entry) == [k \in DOMAIN c \cup {key} |-> IF k = key THEN entry ELSE c[k]]

\* what the remote service does with one GET
Failures == {"transport", "http", "parse"}
Ok(payload) == [kind |-> "ok", payload |-> payload]
Failed(kind) == [kind |-> kind, payload |-> EmptyDict]

\* variant: only request errors are caught, a body that does not parse propagates
fetch_body_propagates_parse(outcome) ==
    IF outcome.kind = "ok"
    THEN [ret |-> outcome.payload, warned |-> FALSE, raised |-> FALSE]
    ELSE IF outcome.kind = "parse"
    THEN [ret |-> EmptyDict, warned |-> FALSE, raised |-> TRUE]
    ELSE [ret |-> EmptyDict, warned |-> TRUE, raised |-> FALSE]

\* lines 36-43: the body of fetch_data, run on a cache miss
fetch_body(outcome) ==
    IF outcome.kind = "ok"
    THEN [ret |-> outcome.payload, warned |-> FALSE, raised |-> FALSE]
    ELSE [ret |-> EmptyDict, warned |-> TRUE, raised |-> FALSE]

\* variant: the decorator is not applied, every call runs the body
fetch_data_uncached(c, t, endpoint, version, outcome) ==
    LET key == Key(endpoint, version)
        b == fetch_body(outcome)
    IN [cache |-> Put(c, key, [val |-> b.ret, stamp |-> t, stale |-> FALSE]),
        ret |-> b.ret, net |-> outcome.kind, warned |-> b.warned,
        raised |-> b.raised, key |-> key,
        found |-> IF key \in DOMAIN c THEN "stale" ELSE "absent"]

\* variant: no ttl, an entry once stored is served for ever
fetch_data_no_ttl(c, t, endpoint, version, outcome) ==
    LET key == Key(endpoint, version)
    IN IF key \in DOMAIN c
       THEN [cache |-> c, ret |-> c[key].val, net |-> "none", warned |-> FALSE,
             raised |-> FALSE, key |-> key, found |-> "live"]
       ELSE LET b == fetch_body(outcome)
            IN [cache |-> Put(c, key, [val |-> b.ret, stamp |-> t, stale |-> FALSE]),
                ret |-> b.ret, net |-> outcome.kind, warned |-> b.warned,
                raised |-> b.raised, key |-> key, found |-> "absent"]

\* variant: only a successful answer is stored
fetch_data_forgets_failures(c, t, endpoint, version, outcome) ==
    LET key == Key(endpoint, version)
    IN IF Live(c, key, t)
       THEN [cache |-> c, ret |-> c[key].val, net |-> "none", warned |-> FALSE,
             raised |-> FALSE, key |-> key, found |-> "live"]
       ELSE LET b == fetch_body(outcome)
            IN [cache |-> IF outcome.kind # "ok" THEN c
                          ELSE Put(c, key, [val |-> b.ret, stamp |-> t, stale |-> FALSE]),
                ret |-> b.ret, net |-> outcome.kind, warned |-> b.warned,
                raised |-> b.raised, key |-> key,
                found |-> IF key \in DOMAIN c THEN "stale" ELSE "absent"]

\* lines 27-43: the memoized fetch_data(endpoint, version) called at time t
\* on cache c, the remote service answering `outcome` if it is asked
fetch_data(c, t, endpoint, version, outcome) ==
    LET key == Key(endpoint, version)
    IN IF Live(c, key, t)
       THEN [cache |-> c, ret |-> c[key].val, net |-> "none", warned |-> FALSE,
             raised |-> FALSE, key |-> key, found |-> "live"]
       ELSE LET b == fetch_body(outcome)
            IN [cache |-> IF b.raised THEN c
                          ELSE Put(c, key, [val |-> b.ret, stamp |-> t, stale |-> FALSE]),
                ret |-> b.ret, net |-> outcome.kind, warned |-> b.warned,
                raised |-> b.raised, key |-> key,
                found |-> IF key \in DOMAIN c THEN "stale" ELSE "absent"]

\* variant: an increment is applied to the counter of every key
refresh_after_all(r, key, increment) ==
    [k \in DOMAIN r |-> IF increment THEN r[k] + 1 ELSE r[k]]

\* variant: the counter is read but never incremented
refresh_after_never(r, key, increment) == r

\* lines 46-51: st.session_state.refresh after get_version(key, increment);
\* the defaultdict gives every key the value 0 until it is incremented
refresh_after(r, key, increment) ==
    [r EXCEPT ![key] = IF increment THEN @ + 1 ELSE @]

VersionKeys == {"club", "match", "player"}

(***************************************************************************)
(* What the last call was and what it did                                  *)
(***************************************************************************)
Idle ==
    [op |-> "init", arg |-> <<>>, force |-> FALSE, status |-> Str(<<>>),
     as_dict |-> FALSE, key |-> NoKey, looked |-> FALSE, net |-> "none",
     found |-> "none", warned |-> FALSE, fret |-> EmptyDict, fraised |-> FALSE,
     keys |-> <<>>, html |-> <<>>, logged |-> FALSE, res |-> Ret(<<>>)]

Fetched(l, f) ==
    [l EXCEPT !.key = f.key, !.looked = TRUE, !.net = f.net, !.found = f.found,
              !.warned = f.warned, !.fret = f.ret, !.fraised = f.raised]

Init ==
    /\ now = 0
    /\ cache = <<>>
    /\ refresh = [k \in VersionKeys |-> 0]
    /\ joueurs = <<>>
    /\ last = Idle

\* time passes; entries that reach the TTL become stale
Tick ==
    /\ now + TickStep <= MaxTime
    /\ now' = now + TickStep
    /\ cache' = [k \in DOMAIN cache |->
                    IF Expired(cache[k], now') THEN StaleEntry ELSE cache[k]]
    /\ last' = [Idle EXCEPT !.op = "tick"]
    /\ UNCHANGED <<refresh, joueurs>>

\* lines 46-51, called on its own
get_version(key, increment) ==
    /\ increment => refresh[key] < MaxVersion
    /\ refresh' = refresh_after(refresh, key, increment)
    /\ last' = [Idle EXCEPT !.op = "get_version", !.arg = <<key>>, !.force = increment,
                            !.res = Ret(refresh'[key])]
    /\ UNCHANGED <<now, cache, joueurs>>

(***************************************************************************)
(* Club and match accessors                                                *)
(***************************************************************************)
ClubPayloads == {[k \in {<<"name">>} |-> n] : n \in 1..2}
MatchPayloads == {[k \in {<<"boards">>} |-> n] : n \in 1..2}

Outcomes(payloads) == {Ok(p) : p \in payloads} \cup {Failed(k) : k \in Failures}

\* the answers the remote service can give to this call: it is asked only
\* when the call reaches fetch_data and the cache holds no live entry
Answers(asked, payloads) == IF asked THEN Outcomes(payloads) ELSE {Failed("transport")}

\* lines 73-74
club_endpoint(club_id) == <<"club", "/">> \o club_id

\* lines 53-74
get_club_data(club_id, force_refresh) ==
    /\ force_refresh => refresh["club"] < MaxVersion
    /\ \E r \in {refresh_after(refresh, "club", force_refresh)},
          e \in {club_endpoint(club_id)} :
       \E o \in Answers(~Live(cache, Key(e, r["club"]), now), ClubPayloads) :
       \E f \in {fetch_data(cache, now, e, r["club"], o)} :
            /\ refresh' = r
            /\ cache' = f.cache
            /\ last' = Fetched([Idle EXCEPT !.op = "get_club_data", !.arg = club_id,
                                            !.force = force_refresh,
                                            !.res = IF f.raised THEN Raise(f.net)
                                                    ELSE Ret(f.ret)], f)
    /\ UNCHANGED <<now, joueurs>>

\* lines 96-110
get_club_matches(club_id, force_refresh) ==
    get_club_data(club_id \o <<"/", "matches">>, force_refresh)

\* variant: the match id is used as given
match_endpoint_raw(match_id) == <<"match", "/">> \o match_id

\* lines 138-139: the endpoint get_match_data asks for
match_endpoint(match_id) ==
    <<"match", "/">> \o
        (IF "/" \in SeqToSet(match_id) THEN Last(split(match_id, <<"/">>)) ELSE match_id)

\* lines 122-139
get_match_data(match_id, force_refresh) ==
    /\ force_refresh => refresh["match"] < MaxVersion
    /\ \E r \in {refresh_after(refresh, "match", force_refresh)},
          e \in {match_endpoint(match_id)} :
       \E o \in Answers(~Live(cache, Key(e, r["match"]), now), MatchPayloads) :
       \E f \in {fetch_data(cache, now, e, r["match"], o)} :
            /\ refresh' = r
            /\ cache' = f.cache
            /\ last' = Fetched([Idle EXCEPT !.op = "get_match_data", !.arg = match_id,
                                            !.force = force_refresh,
                                            !.res = IF f.raised THEN Raise(f.net)
                                                    ELSE Ret(f.ret)], f)
    /\ UNCHANGED <<now, joueurs>>

ApiMatchUrl(n) ==
    <<"https:", "/", "/", "api.chess.com", "/", "pub", "/", "match", "/">> \o n

ClubIds == {<<"martinique">>}
MatchNumbers == {<<"1530241">>, <<"1803610">>}
MatchIds == MatchNumbers \cup {ApiMatchUrl(<<"1530241">>)}

NextClub ==
    \/ Tick
    \/ \E inc \in BOOLEAN : get_version("club", inc)
    \/ \E c \in ClubIds, fr \in BOOLEAN : get_club_data(c, fr)
    \/ \E c \in ClubIds, fr \in BOOLEAN : get_club_matches(c, fr)

SpecClub == Init /\ [][NextClub]_vars

NextMatch ==
    \/ Tick
    \/ \E inc \in BOOLEAN : get_version("match", inc)
    \/ \E m \in MatchIds, fr \in BOOLEAN : get_match_data(m, fr)

SpecMatch == Init /\ [][NextMatch]_vars

(***************************************************************************)
(* Player accessor                                                         *)
(***************************************************************************)
AtId == <<"@", "i", "d">>
Url == <<"u", "r", "l">>

WebMatchUrl(n) ==
    <<"https:", "/", "/", "www.chess.com", "/", "club", "/", "matches", "/">> \o n

Dict1(k, v) == [x \in {k} |-> v]

MatchInfo1 == Dict1(AtId, ApiMatchUrl(<<"1530241">>))
MatchInfo2 == Dict1(Url, WebMatchUrl(<<"1815536">>))
MatchInfo3 == Dict1(AtId, ApiMatchUrl(<<>>))

PayloadAll ==
    [s \in {finished, in_progress, registered} |->
        IF s = finished THEN <<MatchInfo1>>
        ELSE IF s = in_progress THEN <<MatchInfo2>> ELSE <<MatchInfo3>>]

PayloadPartial == Dict1(finished, <<MatchInfo2>>)

PlayerPayloads == {PayloadAll, PayloadPartial}

\* variant: the username is not checked
username_missing_never(username) == FALSE

\* line 180: `not username`
username_missing(username) == username = <<>>

\* lines 183-184: the statuses the call goes on with
requested_status(status) ==
    IF AllInSTATUS(Items(status)) THEN Ret(Items(status)) ELSE normalize_status(status)

\* variant: the statuses are looked up in joueurs instead of joueurs[username]
record_complete_wrong_dict(rec, st) == \A i \in 1..Len(st) : st[i] \in DOMAIN joueurs

\* line 192: all(s in joueurs[username] for s in status)
record_complete(rec, st) == \A i \in 1..Len(st) : st[i] \in DOMAIN rec

\* line 194
player_endpoint(username) == <<"player", "/">> \o username \o <<"/", "matches">>

\* line 202: joueurs[username] |= player_matches
merge(rec, pm) ==
    [k \in DOMAIN rec \cup DOMAIN pm |-> IF k \in DOMAIN pm THEN pm[k] ELSE rec[k]]

AsDict(m) == [t |-> "dict", v |-> m]
AsId(i) == [t |-> "id", v |-> i]

\* variant: the trailing component is returned even when it is empty
match_ref_bare(m, as_dict) ==
    IF as_dict THEN AsDict(m)
    ELSE AsId(Last(split(IF AtId \in DOMAIN m THEN m[AtId] ELSE m[Url], <<"/">>)))

\* lines 206-207: one element of the returned list
match_ref(m, as_dict) ==
    LET id0 == IF AtId \in DOMAIN m /\ m[AtId] # <<>> THEN m[AtId]
               ELSE IF Url \in DOMAIN m /\ m[Url] # <<>> THEN m[Url]
               ELSE <<>>
        id1 == IF id0 = <<>> THEN <<>> ELSE Last(split(id0, <<"/">>))
    IN IF as_dict \/ id1 = <<>> THEN AsDict(m) ELSE AsId(id1)

RECURSIVE flatten(_)
flatten(qq) == IF qq = <<>> THEN <<>> ELSE Head(qq) \o flatten(Tail(qq))

\* lines 206-208: the returned list; a status missing from the record is a KeyError
result_list(rec, st, as_dict) ==
    IF \E i \in 1..Len(st) : st[i] \notin DOMAIN rec
    THEN Raise("KeyError")
    ELSE Ret(flatten([i \in 1..Len(st) |->
                [j \in 1..Len(rec[st[i]]) |-> match_ref(rec[st[i]][j], as_dict)]]))

\* lines 186-191: joueurs after the player's record has been created
with_record(j, username) ==
    IF username \in DOMAIN j THEN j ELSE Put(j, username, EmptyDict)

\* lines 150-208
get_player_matches(username, status, as_dict) ==
    /\ UNCHANGED <<now, refresh>>
    /\ \E l0 \in {[Idle EXCEPT !.op = "get_player_matches", !.arg = username,
                                !.status = status, !.as_dict = as_dict]} :
       IF username_missing(username)
       THEN /\ last' = [l0 EXCEPT !.res = Raise("ValueError")]
            /\ UNCHANGED <<cache, joueurs>>
       ELSE
       \E st \in {requested_status(status)} :
       IF st.kind = "raise"
       THEN /\ last' = [l0 EXCEPT !.res = st]
            /\ UNCHANGED <<cache, joueurs>>
       ELSE
       \E j1 \in {with_record(joueurs, username)} :
       IF record_complete(j1[username], st.v)
       THEN /\ last' = [l0 EXCEPT !.keys = st.v,
                                  !.res = result_list(j1[username], st.v, as_dict)]
            /\ joueurs' = j1
            /\ UNCHANGED cache
       ELSE
       \E e \in {player_endpoint(username)} :
       \E o \in Answers(~Live(cache, Key(e, 0), now), PlayerPayloads) :
       \E f \in {fetch_data(cache, now, e, 0, o)} :
       IF f.raised \/ f.ret = EmptyDict
       THEN \* `player` (line 196) and `display` (line 203) are bound nowhere
            /\ last' = Fetched([l0 EXCEPT !.keys = st.v, !.res = Raise("NameError")], f)
            /\ joueurs' = j1
            /\ cache' = f.cache
       ELSE \E j2 \in {[j1 EXCEPT ![username] = merge(@, f.ret)]} :
            /\ last' = Fetched([l0 EXCEPT !.keys = st.v, !.res =
                                   result_list(j2[username], st.v, as_dict)], f)
            /\ joueurs' = j2
            /\ cache' = f.cache

Usernames == {<<>>, <<"mf972">>, <<"durvalo">>}

PlayerStatusInputs ==
    << Tup(<<in_progress, registered>>), Tup(<<finished>>), Str(finished),
       Str(<<>>), Tup(<< <<>> >>), Str(<<"f", "i">>) >>

NextPlayer ==
    \/ Tick
    \/ \E inc \in BOOLEAN : get_version("player", inc)
    \/ \E u \in Usernames, i \in 1..Len(PlayerStatusInputs), d \in BOOLEAN :
          get_player_matches(u, PlayerStatusInputs[i], d)

SpecPlayer == Init /\ [][NextPlayer]_vars

(***************************************************************************)
(* normalize_status called on its own                                      *)
(***************************************************************************)
MaxStrLen == 3
MaxSeqLen == 2

NormAlphabet == {"f", "i", "r", "u", "p", " ", ","}

NormTokens ==
    {finished, in_progress, registered, <<>>, <<"f", "i">>, <<"u">>, <<"p">>, <<"x">>}

StrInputs ==
    UNION {[1..n -> NormAlphabet] : n \in 0..MaxStrLen} \cup
    { finished, in_progress, registered,
      <<"f", "i", " ", "r", "e", "g">>, <<"f", ",", " ", "i", " ", "r">>,
      <<"f", ",", "i", ",", "r">>, <<"r", "e", "g">>, <<"f", "i", "n">>,
      <<"f", "i", "n", "i">>, finished \o <<",", " ">> \o registered }

SeqInputs == UNION {[1..n -> NormTokens] : n \in 0..MaxSeqLen}

call_normalize_status(status) ==
    /\ last' = [Idle EXCEPT !.op = "normalize_status", !.status = status,
                            !.res = normalize_status(status)]
    /\ UNCHANGED <<now, cache, refresh, joueurs>>

NextNorm ==
    \/ \E s \in StrInputs : call_normalize_status(Str(s))
    \/ \E q \in SeqInputs : call_normalize_status(Tup(q))

SpecNorm == Init /\ [][NextNorm]_vars

(***************************************************************************)
(* get_matches of src/scraping.py: fetch a forum page, find the match      *)
(* links with the default pattern  matches/(?:[\w-]+/)?(\d+)  and return   *)
(* the captured ids without duplicates.  In a page the word "matches" and  *)
(* the other words of a link are one element each; a digit, "_", "-", "/"  *)
(* and any other character is an element of its own.                       *)
(***************************************************************************)
MaxLinks == 3

Digits == {"0", "1", "2", "3", "4", "5", "6", "7", "8", "9"}

\* the elements matched by \w
WordChars ==
    Digits \cup {"_", "a", "matches", "href", "https", "www", "chess", "com",
                 "club", "team", "nantes"}

\* the number of consecutive elements of class, from position p on
RECURSIVE RunLen(_, _, _)
RunLen(text, p, class) ==
    IF p > Len(text) \/ text[p] \notin class THEN 0
    ELSE 1 + RunLen(text, p + 1, class)

Max(S) == CHOOSE m \in S : \A n \in S : m >= n

\* The pattern tried at position p.  The optional group is greedy: the
\* longest run of [\w-] that is followed by "/" and a digit is taken, and
\* the group is skipped only when no run lets the rest of the pattern match.
match_at(text, p) ==
    LET q == p + 2
        slugs == {k \in 1..RunLen(text, q, WordChars \cup {"-"}) :
                     /\ q + k <= Len(text) /\ text[q + k] = "/"
                     /\ RunLen(text, q + k + 1, Digits) > 0}
        d == IF slugs # {} THEN q + Max(slugs) + 1 ELSE q
        n == RunLen(text, d, Digits)
    IN  IF /\ p + 1 <= Len(text) /\ text[p] = "matches" /\ text[p + 1] = "/"
           /\ n > 0
        THEN [ok |-> TRUE, group |-> SubSeq(text, d, d + n - 1), end |-> d + n]
        ELSE [ok |-> FALSE, group |-> <<>>, end |-> p]

\* re.findall: the groups of the non-overlapping matches, scanning from the
\* left; after a match the scan goes on where the match ended
RECURSIVE findall(_, _)
findall(text, p) ==
    IF p > Len(text) THEN <<>>
    ELSE LET m == match_at(text, p)
         IN  IF m.ok THEN <<m.group>> \o findall(text, m.end)
             ELSE findall(text, p + 1)

RECURSIVE fromkeys_keep_last(_, _)
fromkeys_keep_last(q, seen) ==
    IF q = <<>> THEN <<>>
    ELSE IF Head(q) \in SeqToSet(Tail(q)) THEN fromkeys_keep_last(Tail(q), seen)
    ELSE <<Head(q)>> \o fromkeys_keep_last(Tail(q), seen)

\* list(dict.fromkeys(q)): a dict keeps its keys in insertion order, and
\* inserting a key that is already there does not move it
RECURSIVE fromkeys(_, _)
fromkeys(q, seen) ==
    IF q = <<>> THEN <<>>
    ELSE IF Head(q) \in seen THEN fromkeys(Tail(q), seen)
    ELSE <<Head(q)>> \o fromkeys(Tail(q), seen \cup {Head(q)})

\* the ways requests.get and raise_for_status fail; both exceptions are
\* subclasses of requests.exceptions.RequestException
PageFailures == {"transport", "http"}

except_only_http(kind) == kind = "http"

\* except requests.exceptions.RequestException
except_RequestException(kind) == kind \in PageFailures

\* outcome is what the request gives: Ok(html_content) or Failed(kind)
scrape(outcome) ==
    IF outcome.kind = "ok"
    THEN [res |-> Ret(fromkeys(findall(outcome.payload, 1), {})), logged |-> FALSE]
    ELSE IF except_RequestException(outcome.kind)
    THEN [res |-> Ret(<<>>), logged |-> TRUE]
    ELSE [res |-> Raise(outcome.kind), logged |-> FALSE]

get_matches(url, outcome) ==
    /\ \E s \in {scrape(outcome)} :
          last' = [Idle EXCEPT !.op = "get_matches", !.arg = url,
                               !.net = outcome.kind, !.html = outcome.payload,
                               !.logged = s.logged, !.res = s.res]
    /\ UNCHANGED <<now, cache, refresh, joueurs>>

ForumUrls ==
    {<<"https:", "/", "/", "www.chess.com", "/", "fr", "/", "clubs", "/",
       "forum", "/", "view", "/", "cfe2025-division-1">>}

Link(id) == <<"matches", "/">> \o id
SlugLink(slug, id) == <<"matches", "/">> \o slug \o <<"/">> \o id

Segments ==
    {Link(<<"1">>), Link(<<"2">>), SlugLink(<<"a", "-", "1">>, <<"1">>),
     Link(<<"1", "a", "/">>), <<" ">>, <<"1">>}

Href(link) ==
    <<"href", "=", "\"", "https", ":", "/", "/", "www", ".", "chess", ".",
      "com", "/", "club", "/">> \o link \o <<"\"">>

ExamplePage ==
    Href(SlugLink(<<"team", "-", "nantes", "-", "1">>,
                  <<"1", "8", "0", "3", "6", "0", "0">>))
    \o <<" ">> \o Href(Link(<<"1", "8", "6", "9", "9", "7", "5">>))

Pages ==
    {flatten(q) : q \in UNION {[1..n -> Segments] : n \in 0..MaxLinks}}
    \cup {ExamplePage}

NextScrape ==
    \E url \in ForumUrls :
       \E outcome \in {Ok(p) : p \in Pages} \cup {Failed(k) : k \in PageFailures} :
          get_matches(url, outcome)

SpecScrape == Init /\ [][NextScrape]_vars

(***************************************************************************)
(* The version counters under calls of get_version for every key and of    *)
(* the club and match accessors, within one hour                           *)
(***************************************************************************)
NextVersions ==
    \/ \E k \in VersionKeys, inc \in BOOLEAN : get_version(k, inc)
    \/ \E c \in ClubIds, fr \in BOOLEAN : get_club_data(c, fr)
    \/ \E m \in {ApiMatchUrl(<<"1530241">>)}, fr \in BOOLEAN : get_match_data(m, fr)

SpecVersions == Init /\ [][NextVersions]_vars

Next == NextClub \/ NextMatch \/ NextPlayer \/ NextNorm \/ NextScrape \/ NextVersions

Spec == Init /\ [][Next]_vars

(***************************************************************************)
(* Properties                                                              *)
(***************************************************************************)
Canonical == {finished, in_progress, registered}

Returns(res, val) == res.kind = "return" /\ res.v = val
Raises(res, exc) == res.kind = "raise" /\ res.v = exc

FetchOps == {"get_club_data", "get_match_data", "get_player_matches"}

\* C1: a fetch of (endpoint, version) whose entry is within its TTL returns
\* the stored payload without a network request, and no other call or
\* passage of time short of the TTL changes that entry.
C1_CachedWithinTTL ==
    [][\A k \in DOMAIN cache :
          Live(cache, k, now') =>
             /\ k \in DOMAIN cache' /\ cache'[k] = cache[k]
             /\ (last'.looked /\ last'.key = k) =>
                   /\ last'.net = "none"
                   /\ last'.fret = cache[k].val
                   /\ Returns(last'.res, cache[k].val)]_vars

\* a hit on an entry stored earlier, an entry of another key stored in between
C1_Witness ==
    /\ last.looked /\ last.net = "none"
    /\ Live(cache, last.key, now) /\ cache[last.key].stamp < now
    /\ Returns(last.res, cache[last.key].val)
    /\ \E k \in DOMAIN cache :
          k # last.key /\ ~cache[k].stale /\ cache[k].stamp > cache[last.key].stamp

AccessorOf(key) ==
    IF key = "club" THEN "get_club_data"
    ELSE IF key = "match" THEN "get_match_data" ELSE "get_player_matches"

\* C2: for each of the keys club, match and player, the fetch that follows
\* an increment of the key's counter (by get_version or by a forced
\* accessor call) performs a network request although no TTL has expired.
C2_BumpForcesRequest ==
    [][/\ (last.op = "get_version" /\ last.force /\ last'.looked
             /\ last'.op = AccessorOf(last.arg[1])) => last'.net # "none"
       /\ (last'.op \in FetchOps /\ last'.force /\ last'.looked) => last'.net # "none"]_vars

\* C3: a fetch that finds its entry expired performs a network request and
\* stores a fresh entry under the same version; a forced call stores an
\* entry under the new version and leaves the live entry of the old one.
C3_Orthogonal ==
    [][/\ \A k \in DOMAIN cache :
            (last'.looked /\ last'.key = k /\ Expired(cache[k], now')) =>
                /\ last'.net # "none"
                /\ Live(cache', k, now') /\ cache'[k].stamp = now'
                /\ refresh' = refresh
       /\ (last'.op \in FetchOps /\ last'.force /\ last'.looked) =>
            LET old == Key(last'.key.e, last'.key.v - 1)
            IN /\ last'.net # "none"
               /\ last'.key \notin DOMAIN cache
               /\ Live(cache', last'.key, now')
               /\ Live(cache, old, now) =>
                     (Live(cache', old, now') /\ cache'[old] = cache[old])]_vars

\* an unforced call refetches an expired entry while the cache also holds
\* an entry of the same endpoint under another version
C3_Witness ==
    /\ last.found = "stale" /\ last.net # "none" /\ ~last.force
    /\ Live(cache, last.key, now)
    /\ \E k \in DOMAIN cache : k.e = last.key.e /\ k.v # last.key.v

\* a forced call has stored a new entry beside the live one of the old version
C3_WitnessBump ==
    /\ last.force /\ last.looked
    /\ Live(cache, last.key, now)
    /\ Live(cache, Key(last.key.e, last.key.v - 1), now)

\* C4: get_match_data with the API URL of match n and with the bare n use
\* the key ('match/n', version): called one after the other, unforced, the
\* second call has the first one's key and result and makes no request.
C4_UrlAndBareId ==
    [][\A n \in MatchNumbers :
          (/\ last.op = "get_match_data" /\ last'.op = "get_match_data"
           /\ ~last'.force
           /\ last.arg # last'.arg
           /\ {last.arg, last'.arg} = {n, ApiMatchUrl(n)}) =>
             /\ last'.key = Key(<<"match", "/">> \o n, refresh["match"])
             /\ last'.key = last.key
             /\ last'.res = last.res
             /\ last'.net = "none"]_vars

C4_Witness ==
    /\ last.op = "get_match_data" /\ last.arg = ApiMatchUrl(<<"1530241">>)
    /\ last.key.e = <<"match", "/", "1530241">>
    /\ last.found = "live" /\ last.net = "none"
    /\ last.res.v \in MatchPayloads

\* C5: when the GET fails or its body does not parse, fetch_data warns,
\* returns the empty dict and raises nothing.
C5_FailureIsEmpty ==
    last.net \in Failures =>
        /\ last.fret = EmptyDict
        /\ last.warned
        /\ ~last.fraised
        /\ last.op = "get_club_data" => Returns(last.res, EmptyDict)

C5_Witness ==
    /\ last.op = "get_club_data" /\ last.net = "parse"
    /\ Returns(last.res, EmptyDict) /\ last.warned
    /\ Live(cache, last.key, now) /\ cache[last.key].val = EmptyDict

\* C6: get_player_matches with an empty username raises ValueError, asks
\* neither the cache nor the network, and changes no session state.
C6_EmptyUsername ==
    [][(last'.op = "get_player_matches" /\ last'.arg = <<>>) =>
          /\ Raises(last'.res, "ValueError")
          /\ ~last'.looked /\ last'.net = "none"
          /\ cache' = cache /\ joueurs' = joueurs /\ refresh' = refresh]_vars

C6_Witness ==
    /\ last.op = "get_player_matches" /\ last.arg = <<>>
    /\ Raises(last.res, "ValueError")
    /\ last.status.t = "seq" /\ last.as_dict
    /\ DOMAIN joueurs # {} /\ DOMAIN cache # {}

\* C7: normalize_status('fi') returns ('finished', 'in_progress') and
\* normalize_status('fi reg') returns ('finished', 'registered').
C7_FiAlone ==
    (last.op = "normalize_status" /\ last.status.t = "str") =>
        /\ last.status.v = <<"f", "i">> => Returns(last.res, <<finished, in_progress>>)
        /\ last.status.v = <<"f", "i", " ", "r", "e", "g">> =>
              Returns(last.res, <<finished, registered>>)

\* the four-step fallback as the claim states it; <<>> when nothing matches
ClaimedResolve(tok) ==
    IF tok \in Canonical THEN tok
    ELSE IF \E i \in 1..3 : startswith(STATUS[i], tok)
    THEN STATUS[Min({i \in 1..3 : startswith(STATUS[i], tok)})]
    ELSE IF \E i \in 1..3 : contains(STATUS[i], tok)
    THEN STATUS[Min({i \in 1..3 : contains(STATUS[i], tok)})]
    ELSE IF startswith(tok, <<"u">>) THEN registered
    ELSE <<>>

\* C8: a single token resolves by exact match, else prefix, else substring,
\* else 'u' for registered; so 'p' gives ('in_progress',) and 'u' gives
\* ('registered',).
C8_Fallback ==
    /\ (last.op = "normalize_status" /\ last.status.t = "seq"
          /\ Len(last.status.v) = 1 /\ last.status.v[1] # <<>>
          /\ ClaimedResolve(last.status.v[1]) # <<>>) =>
             Returns(last.res, <<ClaimedResolve(last.status.v[1])>>)
    /\ (last.op = "normalize_status" /\ last.status.t = "str"
          /\ last.status.v \in {<<"p">>, <<"u">>}) =>
             Returns(last.res, <<ClaimedResolve(last.status.v)>>)

\* C9: every status normalize_status returns, and every status
\* get_player_matches uses as a key of a player's record, is one of
\* finished, in_progress, registered.
C9_ClosedSet ==
    /\ (last.op = "normalize_status" /\ last.res.kind = "return") =>
          \A i \in 1..Len(last.res.v) : last.res.v[i] \in Canonical
    /\ last.op = "get_player_matches" =>
          \A i \in 1..Len(last.keys) : last.keys[i] \in Canonical

\* C10: when the player's record holds every requested status,
\* get_player_matches asks neither the cache nor the network and leaves
\* the records as they are.
C10_CompleteNoFetch ==
    [][(/\ last'.op = "get_player_matches"
        /\ last'.arg \in DOMAIN joueurs
        /\ requested_status(last'.status).kind = "return"
        /\ \A i \in 1..Len(requested_status(last'.status).v) :
              requested_status(last'.status).v[i] \in DOMAIN joueurs[last'.arg]) =>
          /\ ~last'.looked /\ last'.net = "none"
          /\ joueurs' = joueurs /\ cache' = cache]_vars

\* a call for a complete record, after calls for another player, while the
\* player's cache entry has expired
C10_Witness ==
    /\ last.op = "get_player_matches" /\ ~last.looked
    /\ last.arg \in DOMAIN joueurs /\ Len(last.keys) = 2
    /\ \A i \in 1..Len(last.keys) : last.keys[i] \in DOMAIN joueurs[last.arg]
    /\ last.res.kind = "return" /\ Len(last.res.v) > 0
    /\ Cardinality(DOMAIN joueurs) = 2
    /\ ~Live(cache, Key(player_endpoint(last.arg), 0), now)

\* C11: when get_player_matches fetches, the list stored under every status
\* that the player's record held before the call is the same after it.
C11_MergeKeepsPresent ==
    [][(/\ last'.op = "get_player_matches" /\ last'.looked
        /\ last'.arg \in DOMAIN joueurs) =>
          \A s \in DOMAIN joueurs[last'.arg] :
             /\ s \in DOMAIN joueurs'[last'.arg]
             /\ joueurs'[last'.arg][s] = joueurs[last'.arg][s]]_vars

\* C12: when the fetch inside get_player_matches fails, the call reports a
\* warning, raises nothing and leaves the player's record as it was.
C12_FetchFailure ==
    [][(/\ last'.op = "get_player_matches" /\ last'.net \in Failures) =>
          /\ last'.warned
          /\ last'.res.kind = "return"
          /\ last'.arg \in DOMAIN joueurs =>
                joueurs'[last'.arg] = joueurs[last'.arg]]_vars

FirstIndex(q, x) == Min({i \in 1..Len(q) : q[i] = x})

\* id is a run of digits of the page that starts right after a "/" and
\* stops where the digits stop
IsIdOf(page, id) ==
    /\ id # <<>>
    /\ \E d \in 2..Len(page) :
          /\ page[d - 1] = "/"
          /\ d + Len(id) - 1 <= Len(page)
          /\ SubSeq(page, d, d + Len(id) - 1) = id
          /\ RunLen(page, d, Digits) = Len(id)

\* C13: on a successful page fetch get_matches returns the captured ids of
\* the pattern matches of the page: no id twice, every captured id present,
\* ordered by first occurrence; the two links of the example page give
\* ['1803600', '1869975'].
C13_DedupFirstOccurrence ==
    (last.op = "get_matches" /\ last.net = "ok") =>
       /\ last.res.kind = "return"
       /\ LET r == last.res.v
              found == findall(last.html, 1)
          IN  /\ \A i, j \in 1..Len(r) : r[i] = r[j] => i = j
              /\ SeqToSet(r) = SeqToSet(found)
              /\ \A i, j \in 1..Len(r) :
                    i < j => FirstIndex(found, r[i]) < FirstIndex(found, r[j])
              /\ \A i \in 1..Len(r) : IsIdOf(last.html, r[i])
              /\ last.html = ExamplePage =>
                    r = << <<"1", "8", "0", "3", "6", "0", "0">>,
                           <<"1", "8", "6", "9", "9", "7", "5">> >>

\* a page where an id that is not the first one comes back after another id
C13_Witness ==
    /\ last.op = "get_matches" /\ last.net = "ok"
    /\ last.res.kind = "return"
    /\ Len(last.res.v) = 2
    /\ findall(last.html, 1) = <<last.res.v[1], last.res.v[2], last.res.v[1]>>

\* C14: when the page request fails, by a transport error or an error
\* status, get_matches logs the error and returns an empty sequence; it
\* raises nothing.
C14_FailureIsEmpty ==
    (last.op = "get_matches" /\ last.net \in PageFailures) =>
       /\ Returns(last.res, <<>>)
       /\ last.logged

C14_Witness ==
    /\ last.op = "get_matches" /\ last.net = "transport"
    /\ Returns(last.res, <<>>) /\ last.logged

\* what follows the last "/" of s (all of s when it has none)
Trailing(s) ==
    LET slashes == {i \in 1..Len(s) : s[i] = "/"}
    IN  IF slashes = {} THEN s ELSE SubSeq(s, Max(slashes) + 1, Len(s))

IdSource(m) == IF AtId \in DOMAIN m THEN m[AtId] ELSE m[Url]

\* the number of elements the statuses before the i-th contribute
RECURSIVE Offset(_, _, _)
Offset(rec, st, i) ==
    IF i <= 1 THEN 0 ELSE Offset(rec, st, i - 1) + Len(rec[st[i - 1]])

\* a call that got past the checks of its arguments and whose record holds
\* every requested status afterwards
ServedFromRecord ==
    /\ last.op = "get_player_matches" /\ last.arg # <<>>
    /\ requested_status(last.status).kind = "return"
    /\ last.arg \in DOMAIN joueurs
    /\ \A i \in 1..Len(last.keys) : last.keys[i] \in DOMAIN joueurs[last.arg]

\* the list is made of element(m) for the entries m of the record, status by
\* status in the order requested, and in the stored order within a status
ListedAs(element(_)) ==
    LET rec == joueurs[last.arg]
        st == last.keys
    IN  /\ last.res.kind = "return"
        /\ Len(last.res.v) = Offset(rec, st, Len(st) + 1)
        /\ \A i \in 1..Len(st) : \A k \in 1..Len(rec[st[i]]) :
              last.res.v[Offset(rec, st, i) + k] = element(rec[st[i]][k])

ClaimedElement(m) == IF last.as_dict THEN AsDict(m) ELSE AsId(Trailing(IdSource(m)))

AmendedElement(m) ==
    IF last.as_dict \/ Trailing(IdSource(m)) = <<>> THEN AsDict(m)
    ELSE AsId(Trailing(IdSource(m)))

C15_WitnessUrl ==
    /\ ServedFromRecord /\ ~last.as_dict /\ last.res.kind = "return"
    /\ Len(last.res.v) = 1 /\ last.res.v[1] = AsId(<<"1815536">>)

\* the maximal runs of letters of s, in order
RECURSIVE LetterRuns(_)
LetterRuns(s) ==
    IF s = <<>> THEN <<>>
    ELSE IF Head(s) \notin Letters THEN LetterRuns(Tail(s))
    ELSE LET n == RunLen(s, 1, Letters)
         IN  <<SubSeq(s, 1, n)>> \o LetterRuns(SubSeq(s, n + 1, Len(s)))

\* C16: a string with at least one non-letter character is split on every
\* run of non-letters, so its tokens are its maximal runs of letters
\* ('f,i,r' and 'f, i r' give the tokens f, i, r).
C16_SplitOnRuns ==
    (/\ last.op = "normalize_status" /\ last.status.t = "str"
     /\ \E i \in 1..Len(last.status.v) : last.status.v[i] \notin Letters) =>
        Returns(tokens_of_str(last.status.v), LetterRuns(last.status.v))

\* C17: a string of letters only is split into one-letter abbreviations
\* only when it is shorter than 3; from length 3 on it is one token, so
\* 'reg' gives ('registered',) and 'fin' gives ('finished',).
C17_ShortOnly ==
    (/\ last.op = "normalize_status" /\ last.status.t = "str"
     /\ isalpha(last.status.v)) =>
        /\ Len(last.status.v) >= 3 =>
              Returns(tokens_of_str(last.status.v), <<last.status.v>>)
        /\ last.status.v = <<"r", "e", "g">> => Returns(last.res, <<registered>>)
        /\ last.status.v = <<"f", "i", "n">> => Returns(last.res, <<finished>>)

Unresolvable(tok) == tok # <<>> /\ ClaimedResolve(tok) = <<>>

\* C18: a token that resolves to no status is dropped: the call returns the
\* statuses of the other tokens and does not fail.
C18_UnknownDropped ==
    (/\ last.op = "normalize_status" /\ last.status.t = "seq"
     /\ \E i \in 1..Len(last.status.v) : Unresolvable(last.status.v[i])
     /\ \A i \in 1..Len(last.status.v) :
           Unresolvable(last.status.v[i]) \/ last.status.v[i] \in Canonical) =>
        /\ last.res.kind = "return"
        /\ SeqToSet(last.res.v) = SeqToSet(last.status.v) \cap Canonical

\* C19: a fetch that fails stores the empty result under (endpoint,
\* version) like a payload; while that entry is within its TTL a fetch of the
\* same endpoint and version returns the empty result without a network
\* request, and a request is made only for a key whose entry has expired or
\* that was never stored (a new version).
C19_FailureMemoized ==
    [][/\ (last'.looked /\ last'.net \in Failures) =>
             /\ last'.fret = EmptyDict
             /\ Live(cache', last'.key, now')
             /\ cache'[last'.key].val = EmptyDict /\ cache'[last'.key].stamp = now'
       /\ \A k \in DOMAIN cache :
             (/\ Live(cache, k, now') /\ cache[k].val = EmptyDict
              /\ last'.looked /\ last'.key = k) =>
                 /\ last'.net = "none" /\ ~last'.warned
                 /\ last'.fret = EmptyDict
                 /\ cache'[k] = cache[k]
       /\ (last'.looked /\ last'.net # "none") =>
             \/ last'.key \notin DOMAIN cache
             \/ Expired(cache[last'.key], now')]_vars

\* the empty result of a failure served again, later and within the TTL
C19_Witness ==
    /\ last.op = "get_club_data" /\ last.looked /\ ~last.force
    /\ last.found = "live" /\ last.net = "none"
    /\ last.fret = EmptyDict /\ Returns(last.res, EmptyDict)
    /\ cache[last.key].stamp < now /\ now - cache[last.key].stamp < TTL

\* a retry: the failure stored under the old version is still live when a
\* forced call asks the service under the new version
C19_WitnessRetry ==
    /\ last.op = "get_club_data" /\ last.force /\ last.net # "none"
    /\ Live(cache, Key(last.key.e, last.key.v - 1), now)
    /\ cache[Key(last.key.e, last.key.v - 1)].val = EmptyDict
    /\ last.fret # EmptyDict

\* C20: the call that follows a forced get_club_data for one endpoint, when
\* it is an unforced get_club_data (or get_club_matches) for another
\* endpoint, uses the version the forced call has set, hence a cache key
\* never stored before, and performs a network request even if its endpoint
\* was fetched within the hour; the same holds for get_match_data.
C20_SharedCounter ==
    [][(/\ last.op \in {"get_club_data", "get_match_data"} /\ last.force
        /\ last'.op = last.op /\ ~last'.force
        /\ last'.key.e # last.key.e) =>
          /\ last'.key.v = last.key.v
          /\ last'.key.v = refresh[IF last.op = "get_club_data" THEN "club" ELSE "match"]
          /\ last'.key \notin DOMAIN cache
          /\ last'.net # "none"
          /\ last'.found = "absent"]_vars

\* an unforced call has asked the service although the entry of its endpoint
\* under the previous version, stored within the hour, is still live; the
\* cache holds another endpoint under the new version
C20_Witness ==
    /\ last.op = "get_club_data" /\ ~last.force
    /\ last.found = "absent" /\ last.net # "none"
    /\ last.key.v = refresh["club"] /\ last.key.v > 0
    /\ Live(cache, Key(last.key.e, last.key.v - 1), now)
    /\ \E k \in DOMAIN cache :
          k.e # last.key.e /\ k.v = last.key.v /\ Live(cache, k, now)

KeyOf(op) == IF op = "get_club_data" THEN "club" ELSE "match"

\* C21: every counter starts at 0; get_version(key, increment) adds exactly
\* 1 to the counter of key when increment is true and changes no counter
\* otherwise, and returns that counter; no step lowers a counter; a club
\* or match accessor changes only the counter of its own type (by 1 when
\* forced), so the version in the cache key of the other type stays.
C21_OnlyOwnCounter ==
    /\ \A k \in VersionKeys : refresh[k] = 0
    /\ [][/\ \A k \in VersionKeys : refresh'[k] >= refresh[k]
          /\ last'.op = "get_version" =>
                /\ refresh'[last'.arg[1]] =
                      refresh[last'.arg[1]] + (IF last'.force THEN 1 ELSE 0)
                /\ \A k \in VersionKeys \ {last'.arg[1]} : refresh'[k] = refresh[k]
                /\ Returns(last'.res, refresh'[last'.arg[1]])
          /\ last'.op \in {"get_club_data", "get_match_data"} =>
                /\ refresh'[KeyOf(last'.op)] =
                      refresh[KeyOf(last'.op)] + (IF last'.force THEN 1 ELSE 0)
                /\ \A k \in VersionKeys \ {KeyOf(last'.op)} : refresh'[k] = refresh[k]
                /\ last'.key.v = refresh'[KeyOf(last'.op)]]_vars

\* get_version has incremented the counter of one key while the counter of
\* another key, incremented earlier, differs from 0 and a third is still 0
C21_Witness ==
    /\ last.op = "get_version" /\ last.force /\ last.arg = <<"match">>
    /\ Returns(last.res, 1)
    /\ refresh = [club |-> 1, match |-> 1, player |-> 0]

\* a forced club call made while the cache holds a match entry under the
\* current match version, which a forced match call had set
C21_WitnessForced ==
    /\ last.op = "get_club_data" /\ last.force
    /\ refresh["club"] = 1 /\ refresh["match"] = 1
    /\ \E m \in MatchNumbers : Live(cache, Key(match_endpoint(m), refresh["match"]), now)

====
